---------------------------- MODULE Spec2Model ----------------------------
(***************************************************************************)
(* A model of the scamper-pywarts decoder (package warts).                 *)
(*                                                                         *)
(* The byte stream is the sequence fd; pos is the number of bytes already  *)
(* read from it.  Two generations of the decoder live side by side in the  *)
(* package and both are modelled as written:                               *)
(*   - the record framing layer of base.py, list.py and cycle.py, which    *)
(*     reads through a Parser object (class Parser is imported from        *)
(*     warts.parsing but is not defined there; it is modelled from the     *)
(*     specification, sections 4.1, 4.2 and 4.4);                          *)
(*   - the free functions of parsing.py (read_flags, read_address,         *)
(*     read_icmpext, OptionParser.parse_options) and the records of        *)
(*     traceroute.py that were written against them.                       *)
(* A call's outcome is a record whose err field is "" when it returned and  *)
(* the class name of the exception when it raised.                         *)
(***************************************************************************)
EXTENDS Integers, Sequences, FiniteSets, TLC

VARIABLES
    fd,           \* the bytes of the input stream
    pos,          \* stream offset: bytes read from fd so far
    WARTS_TYPES,  \* WartsRecord.WARTS_TYPES: type code -> class name
    imported,     \* modules of the package imported so far (sys.modules)
    op,           \* the last operation called
    start,        \* pos when the last operation was called
    result,       \* the outcome of the last operation
    hist,         \* the values returned by the calls so far, in order
    failed        \* an exception was raised: the program of test.py ends

vars == <<fd, pos, WARTS_TYPES, imported, op, start, result, hist, failed>>

---------------------------------------------------------------------------
(* Bounds of the inputs.                                                   *)

\* Bytes cut off the end of a stream (0..MaxCut).
MaxCut == 2
\* The declared lengths range over actual length - MaxSlack .. + MaxSlack.
MaxSlack == 1
\* Hops of a generated Traceroute payload (0..MaxHops).
MaxHops == 2
\* Length of the byte strings fed to read_flags.
MaxFlagLen == 3
\* Encoded addresses of a stream fed to read_address.
MaxAddrs == 3
\* ICMP extension entries of a stream fed to read_icmpext.
MaxExts == 2
\* Length of the byte strings fed to read_string.
MaxStrLen == 4
\* Calls of read_string on one stream.
MaxCalls == 3

---------------------------------------------------------------------------
(* Byte arithmetic (struct.unpack with big-endian formats, bit tests).     *)

Pow2(n) == 2 ^ n

\* x & (1 << k) != 0
BitSet(x, k) == (x \div Pow2(k)) % 2 = 1

\* struct.unpack('>H', <<a, b>>)
U16(s) == s[1] * 256 + s[2]

\* struct.unpack('>I', <<a, b, c, d>>)
U32(s) == ((s[1] * 256 + s[2]) * 256 + s[3]) * 256 + s[4]

\* struct.pack, used to build the inputs only
Pack16(n) == <<(n \div 256) % 256, n % 256>>
Pack32(n) == <<(n \div 16777216) % 256, (n \div 65536) % 256,
               (n \div 256) % 256, n % 256>>

Min(a, b) == IF a < b THEN a ELSE b
Max(a, b) == IF a > b THEN a ELSE b

\* Python's None, as an attribute value
None == "None"

\* setattr(self, name, value)
SetAttr(attrs, name, value) ==
    [x \in (DOMAIN attrs) \cup {name} |-> IF x = name THEN value ELSE attrs[x]]

NoAttrs == [x \in {} |-> None]

\* The rest K of a function body runs on the outcome r of a call unless
\* the call raised, in which case the exception propagates
Bind(r, K(_)) == IF r.err # "" THEN r ELSE K(r)

---------------------------------------------------------------------------
(* class Parser (warts.parsing.Parser): imported by base.py, list.py and   *)
(* cycle.py and absent from parsing.py; modelled from the specification.   *)
(* A parser state is [pos, bytes_read]; an outcome is [err, val, p].       *)

Parser_init(at) == [pos |-> at, bytes_read |-> 0]

POk(v, p) == [err |-> "", val |-> v, p |-> p]
PRaise(e, p) == [err |-> e, val |-> <<>>, p |-> p]

\* Parser.safe_read(size): exactly size bytes, or a truncation error
\* (EmptyRead when the stream yields nothing, IncompleteRead when it
\* yields fewer bytes than asked).
Parser_safe_read(p, size) ==
    IF size = 0 THEN POk(<<>>, p)
    ELSE IF Len(fd) - p.pos = 0 THEN PRaise("EmptyRead", p)
    ELSE IF Len(fd) - p.pos < size
         THEN PRaise("IncompleteRead", [p EXCEPT !.pos = Len(fd)])
    ELSE POk(SubSeq(fd, p.pos + 1, p.pos + size),
             [pos |-> p.pos + size, bytes_read |-> p.bytes_read + size])

\* Parser.read_from_format(format): the raw bytes of struct.calcsize(format)
Parser_read_from_format(p, size) == Parser_safe_read(p, size)

Parser_read_uint8(p) ==
    Bind(Parser_read_from_format(p, 1), LAMBDA r: POk(r.val[1], r.p))

Parser_read_uint16(p) ==
    Bind(Parser_read_from_format(p, 2), LAMBDA r: POk(U16(r.val), r.p))

Parser_read_uint32(p) ==
    Bind(Parser_read_from_format(p, 4), LAMBDA r: POk(U32(r.val), r.p))

\* Parser.read_string(): the bytes up to the first zero byte, which is
\* consumed too.  The inputs are ASCII, where the UTF-8 decoding of a byte
\* is the code point of the same number: a string is its code points.
RECURSIVE Parser_read_string_from(_, _)
Parser_read_string_from(p, acc) ==
    Bind(Parser_safe_read(p, 1), LAMBDA r:
        IF r.val[1] = 0 THEN POk(acc, r.p)
        ELSE Parser_read_string_from(r.p, Append(acc, r.val[1])))

Parser_read_string(p) == Parser_read_string_from(p, <<>>)

\* Parser.read_flags(): section 4.1; the bitmask is an integer (base.py
\* tests flags == 0 and flags & (1 << position)).
RECURSIVE Parser_read_flags_from(_, _, _)
Parser_read_flags_from(p, k, acc) ==
    Bind(Parser_read_uint8(p), LAMBDA r:
        IF r.val < 128 THEN POk(acc + r.val * Pow2(7 * k), r.p)
        ELSE Parser_read_flags_from(r.p, k + 1,
                                    acc + (r.val % 128) * Pow2(7 * k)))

Parser_read_flags(p) == Parser_read_flags_from(p, 0, 0)

\* option.parse_function(self.p) for the Parser methods named in the
\* option tables of list.py and cycle.py
Parser_call(fn, p) ==
    CASE fn = "Parser.read_string" -> Parser_read_string(p)
      [] fn = "Parser.read_uint32" -> Parser_read_uint32(p)

---------------------------------------------------------------------------
(* base.py: the option-table decoder of the framing layer.  The outcome    *)
(* of a record method is [err, val, p], val being the record's attributes. *)

\* An option table entry: Option(attr_name, parse_function, ignore=False)
Option(attr_name, parse_function, ignore) ==
    [attr_name |-> attr_name, parse_function |-> parse_function,
     ignore |-> ignore]

\* List.OPTIONS
List_OPTIONS == <<
    Option("description", "Parser.read_string", FALSE),
    Option("monitor_name", "Parser.read_string", FALSE) >>

\* CycleStart.OPTIONS (CycleDefinition inherits it)
CycleStart_OPTIONS == <<
    Option("stop_time", "Parser.read_uint32", FALSE),
    Option("hostname", "Parser.read_string", FALSE) >>

\* The loop of WartsRecord.parse_options over enumerate(options), from
\* the 1-based index i on: an option whose bit is clear is passed over
\* (continue), a set one is parsed and bound unless it is ignored.
RECURSIVE WartsRecord_parse_options_loop(_, _, _, _, _)
WartsRecord_parse_options_loop(options, flags, i, attrs, p) ==
    IF i > Len(options) THEN POk(attrs, p)
    ELSE IF ~BitSet(flags, i - 1)
         THEN WartsRecord_parse_options_loop(options, flags, i + 1, attrs, p)
    ELSE Bind(Parser_call(options[i].parse_function, p), LAMBDA v:
             WartsRecord_parse_options_loop(options, flags, i + 1,
                 IF options[i].ignore THEN attrs
                 ELSE SetAttr(attrs, options[i].attr_name, v.val),
                 v.p))

\* The end of WartsRecord.parse_options: the check against the options
\* byte length and the skip of the unknown options
WartsRecord_parse_options_end(expected_bytes_read, o) ==
    IF o.p.bytes_read > expected_bytes_read
    THEN PRaise("InvalidFormat", o.p)
    ELSE IF o.p.bytes_read < expected_bytes_read
    THEN Bind(Parser_safe_read(o.p, expected_bytes_read - o.p.bytes_read),
              LAMBDA s: POk(o.val, s.p))
    ELSE o

\* WartsRecord.parse_options(self, options)
WartsRecord_parse_options(options, attrs, p) ==
    Bind(Parser_read_flags(p), LAMBDA flags:
        IF flags.val = 0 THEN POk(attrs, flags.p)
        ELSE Bind(Parser_read_uint16(flags.p), LAMBDA options_length:
            Bind(WartsRecord_parse_options_loop(options, flags.val, 1,
                                                attrs, options_length.p),
                 LAMBDA o: WartsRecord_parse_options_end(
                     options_length.p.bytes_read + options_length.val, o))))

---------------------------------------------------------------------------
(* The record classes of the framing layer: each parse() reads its fixed   *)
(* fields through self.p and binds them as attributes.                     *)

\* self.<name> = self.p.read_uint32()
ReadAttr32(name, attrs, p) ==
    Bind(Parser_read_uint32(p), LAMBDA v:
        POk(SetAttr(attrs, name, v.val), v.p))

\* UnknownRecord.parse(self)
UnknownRecord_parse_NoData(attrs, p) == POk(SetAttr(attrs, "data", <<>>), p)

UnknownRecord_parse(attrs, p) ==
    Bind(Parser_safe_read(p, attrs["length"]), LAMBDA d:
        POk(SetAttr(attrs, "data", d.val), d.p))

\* List.parse(self)
List_parse(attrs, p) ==
    Bind(ReadAttr32("auto_id", attrs, p), LAMBDA a:
    Bind(ReadAttr32("manual_id", a.val, a.p), LAMBDA m:
    Bind(Parser_read_string(m.p), LAMBDA n:
    WartsRecord_parse_options(List_OPTIONS,
                              SetAttr(m.val, "name", n.val), n.p))))

\* CycleStart.parse(self), inherited by CycleDefinition
CycleStart_parse(attrs, p) ==
    Bind(ReadAttr32("auto_id", attrs, p), LAMBDA a:
    Bind(ReadAttr32("list_id", a.val, a.p), LAMBDA l:
    Bind(ReadAttr32("manual_id", l.val, l.p), LAMBDA m:
    Bind(ReadAttr32("start_time", m.val, m.p), LAMBDA s:
    WartsRecord_parse_options(CycleStart_OPTIONS, s.val, s.p)))))

\* CycleStop.parse(self)
CycleStop_parse(attrs, p) ==
    Bind(ReadAttr32("cycle_id", attrs, p), LAMBDA c:
    ReadAttr32("stop_time", c.val, c.p))

---------------------------------------------------------------------------
(* parsing.py: the free parsing functions.  Each takes the stream at       *)
(* offset at and returns (value, number of bytes read): an outcome is      *)
(* [err, val, size, pos], pos being the stream offset it leaves.           *)

FOk(v, size, at) == [err |-> "", val |-> v, size |-> size, pos |-> at]
FRaise(e, at) == [err |-> e, val |-> <<>>, size |-> 0, pos |-> at]

\* The offset fd.read(size) of a buffered stream leaves: it reads up to
\* size bytes, fewer at the end of the stream
fd_read_pos(at, size) == Min(at + size, Len(fd))

\* read_from_format(fd, format), size = struct.calcsize(format); the value
\* is the raw buffer, unpacked by the caller
read_from_format(at, size) ==
    IF fd_read_pos(at, size) - at # size
    THEN FRaise("ParseError", fd_read_pos(at, size))
    ELSE FOk(SubSeq(fd, at + 1, at + size), size, at + size)

read_uint8(at) ==
    Bind(read_from_format(at, 1), LAMBDA r: FOk(r.val[1], r.size, r.pos))

read_uint16(at) ==
    Bind(read_from_format(at, 2), LAMBDA r: FOk(U16(r.val), r.size, r.pos))

read_uint32(at) ==
    Bind(read_from_format(at, 4), LAMBDA r: FOk(U32(r.val), r.size, r.pos))

\* read_timeval: sec + usec / 1000000 is a float; the value is kept as the
\* pair <<sec, usec>> it is computed from
read_timeval(at) ==
    Bind(read_from_format(at, 8), LAMBDA r:
        FOk(<<U32(SubSeq(r.val, 1, 4)), U32(SubSeq(r.val, 5, 8))>>,
            r.size, r.pos))

\* read_address(fd): a literal address is returned as its raw bytes; a
\* back-reference reads its id, warns and returns the empty bytes b""
read_address(at) ==
    Bind(read_uint8(at), LAMBDA length:
        IF length.val > 0
        THEN Bind(read_uint8(length.pos), LAMBDA type_:
             Bind(read_from_format(type_.pos, length.val), LAMBDA addr:
                 FOk(addr.val, length.size + type_.size + addr.size,
                     addr.pos)))
        ELSE Bind(read_uint32(length.pos), LAMBDA id:
                 FOk(<<>>, length.size + id.size, id.pos)))

\* buf = fd.peek(4096): BufferedReader.peek returns what its buffer holds,
\* or what one read of the raw stream delivers when the buffer is empty;
\* how many bytes that is depends on the delivery, not on the bytes.  At
\* the end of the stream it is empty, before it any number of bytes from
\* one to all that are left.
peek_sizes(at) ==
    IF at >= Len(fd) THEN { 0 } ELSE 1 .. Len(fd) - at

\* ctypes.string_at(buf), buf being the bytes from offset at up to stop:
\* the bytes up to the first zero byte, or all of buf when it holds none
\* (a bytes object ends with a zero byte of its own)
RECURSIVE string_at(_, _)
string_at(at, stop) ==
    IF at >= stop \/ fd[at + 1] = 0 THEN <<>>
    ELSE <<fd[at + 1]>> \o string_at(at + 1, stop)

\* s.decode('utf-8'), strict.  utf8_len is the number of bytes of the
\* well-formed sequence that starts at s[i], or 0 when there is none
\* (a stray continuation byte, an overlong form, a surrogate, a code point
\* above U+10FFFF, a sequence cut short).
utf8_cont(b) == b >= 128 /\ b <= 191

utf8_second3(b) ==
    IF b = 224 THEN 160 .. 191 ELSE IF b = 237 THEN 128 .. 159 ELSE 128 .. 191

utf8_second4(b) ==
    IF b = 240 THEN 144 .. 191 ELSE IF b = 244 THEN 128 .. 143 ELSE 128 .. 191

utf8_len(s, i) ==
    IF s[i] < 128 THEN 1
    ELSE IF s[i] \in 194 .. 223
    THEN IF i + 1 <= Len(s) /\ utf8_cont(s[i + 1]) THEN 2 ELSE 0
    ELSE IF s[i] \in 224 .. 239
    THEN IF /\ i + 2 <= Len(s)
            /\ s[i + 1] \in utf8_second3(s[i])
            /\ utf8_cont(s[i + 2])
         THEN 3 ELSE 0
    ELSE IF s[i] \in 240 .. 244
    THEN IF /\ i + 3 <= Len(s)
            /\ s[i + 1] \in utf8_second4(s[i])
            /\ utf8_cont(s[i + 2])
            /\ utf8_cont(s[i + 3])
         THEN 4 ELSE 0
    ELSE 0

\* The code point of the well-formed sequence of n bytes at s[i]
utf8_code_point(s, i, n) ==
    CASE n = 1 -> s[i]
      [] n = 2 -> (s[i] - 192) * 64 + (s[i + 1] - 128)
      [] n = 3 -> (s[i] - 224) * 4096 + (s[i + 1] - 128) * 64
                  + (s[i + 2] - 128)
      [] n = 4 -> (s[i] - 240) * 262144 + (s[i + 1] - 128) * 4096
                  + (s[i + 2] - 128) * 64 + (s[i + 3] - 128)

\* The decoding of s from s[i] on, acc being the code points so far:
\* [err, val], a string being the sequence of its code points
RECURSIVE utf8_decode(_, _, _)
utf8_decode(s, i, acc) ==
    IF i > Len(s) THEN [err |-> "", val |-> acc]
    ELSE IF utf8_len(s, i) = 0
    THEN [err |-> "UnicodeDecodeError", val |-> <<>>]
    ELSE utf8_decode(s, i + utf8_len(s, i),
                     Append(acc, utf8_code_point(s, i, utf8_len(s, i))))

\* The last two statements of read_string, s being the bytes string_at
\* gave: fd.read(len(s) + 1) is not checked, the decoding raises after it,
\* and the count returned is len(s) + 1 whatever was read
read_string_end(at, s, d) ==
    IF d.err # "" THEN FRaise(d.err, fd_read_pos(at, Len(s) + 1))
    ELSE FOk(d.val, Len(s) + 1, fd_read_pos(at, Len(s) + 1))

\* read_string(fd), the peek delivering peeked bytes
read_string(at, peeked) ==
    read_string_end(at, string_at(at, at + peeked),
                    utf8_decode(string_at(at, at + peeked), 1, <<>>))

\* IcmpExtension(class_, type_, data)
IcmpExtension(class_, type_, data) ==
    [class_ |-> class_, type_ |-> type_, data |-> data]

\* The while loop of read_icmpext
RECURSIVE read_icmpext_loop(_, _, _, _)
read_icmpext_loop(at, total_length, bytes_read, extensions) ==
    IF ~(bytes_read < total_length)
    THEN FOk(extensions, bytes_read, at)
    ELSE Bind(read_from_format(at, 4), LAMBDA h:
         Bind(read_from_format(h.pos, U16(SubSeq(h.val, 1, 2))), LAMBDA d:
             read_icmpext_loop(d.pos, total_length,
                 bytes_read + h.size + d.size,
                 Append(extensions,
                        IcmpExtension(h.val[3], h.val[4], d.val)))))

\* read_icmpext(fd)
read_icmpext_NoLengthCheck(at) ==
    Bind(read_uint16(at), LAMBDA total_length:
    Bind(read_icmpext_loop(total_length.pos, total_length.val, 0, <<>>),
         LAMBDA l: FOk(l.val, total_length.size + l.size, l.pos)))

read_icmpext(at) ==
    Bind(read_uint16(at), LAMBDA total_length:
    Bind(read_icmpext_loop(total_length.pos, total_length.val, 0, <<>>),
         LAMBDA l:
             IF l.size > total_length.val THEN FRaise("InvalidFormat", l.pos)
             ELSE FOk(l.val, total_length.size + l.size, l.pos)))

---------------------------------------------------------------------------
(* read_flags and the Bits bit set (package bits_mod) it fills.            *)

\* Bits(n): n bits, none marked; mark(i) marks bit i
Bits(n, marked) == [size |-> n, marked |-> marked]
Bits_count(b) == Cardinality(b.marked)
Bits_is_true(b, i) == i \in b.marked

\* The while True loop of read_flags: the flag bytes, up to and including
\* the first whose bit 0x80 is clear
RECURSIVE read_flag_bytes(_, _, _)
read_flag_bytes(at, total_read, flag_bytes) ==
    Bind(read_uint8(at), LAMBDA b:
        IF ~BitSet(b.val, 7)
        THEN FOk(Append(flag_bytes, b.val), total_read + b.size, b.pos)
        ELSE read_flag_bytes(b.pos, total_read + b.size,
                             Append(flag_bytes, b.val)))

\* nb_bits = 8 if i == len(flag_bytes) - 1 else 7 (i counts from 0)
flag_nb_bits_Always8(i, n) == 8

flag_nb_bits(i, n) == IF i = n - 1 THEN 8 ELSE 7

\* The bits one flag byte marks: offset + bit_pos for each bit_pos in
\* range(nb_bits) that is set in the byte
flag_byte_marks(byte, nb_bits, offset) ==
    { offset + bit_pos :
        bit_pos \in { b \in 0 .. nb_bits - 1 : BitSet(byte, b) } }

\* The for loop of read_flags from the 0-based byte index i on: the bits
\* it marks
RECURSIVE read_flags_marks(_, _, _)
read_flags_marks(flag_bytes, i, offset) ==
    IF i >= Len(flag_bytes) THEN {}
    ELSE flag_byte_marks(flag_bytes[i + 1],
                         flag_nb_bits(i, Len(flag_bytes)), offset)
         \cup read_flags_marks(flag_bytes, i + 1,
                               offset + flag_nb_bits(i, Len(flag_bytes)))

\* read_flags(fd): (Bits, total_read)
read_flags(at) ==
    Bind(read_flag_bytes(at, 0, <<>>), LAMBDA b:
        FOk(Bits(Len(b.val) * 8, read_flags_marks(b.val, 0, 0)),
            b.size, b.pos))

---------------------------------------------------------------------------
(* parsing.py: the OptionParser mixin, and the option tables of            *)
(* traceroute.py that name the free functions.  The outcome of             *)
(* parse_options is [err, val, size, pos], val being the attributes bound  *)
(* and size the byte count returned.                                       *)

\* option.parse_function(fd) for the free functions
free_call(fn, at) ==
    CASE fn = "read_uint8" -> read_uint8(at)
      [] fn = "read_uint16" -> read_uint16(at)
      [] fn = "read_uint32" -> read_uint32(at)
      [] fn = "read_timeval" -> read_timeval(at)
      [] fn = "read_address" -> read_address(at)
      [] fn = "read_icmpext" -> read_icmpext(at)

\* Traceroute.OPTIONS
Traceroute_OPTIONS == <<
    Option("list_id", "read_uint32", FALSE),
    Option("cycle_id", "read_uint32", FALSE),
    Option("src_address_id", "read_uint32", TRUE),
    Option("dst_address_id", "read_uint32", TRUE),
    Option("start_time", "read_timeval", FALSE),
    Option("stop_reason", "read_uint8", FALSE),
    Option("stop_data", "read_uint8", FALSE),
    Option("trace_flags", "read_uint8", FALSE),
    Option("attempts", "read_uint8", FALSE),
    Option("hoplimit", "read_uint8", FALSE),
    Option("trace_type", "read_uint8", FALSE),
    Option("probe_size", "read_uint16", FALSE),
    Option("src_port", "read_uint16", FALSE),
    Option("dst_port", "read_uint16", FALSE),
    Option("first_ttl", "read_uint8", FALSE),
    Option("ip_tos", "read_uint8", FALSE),
    Option("probe_timeout", "read_uint8", FALSE),
    Option("nb_loops", "read_uint8", FALSE),
    Option("nb_hops", "read_uint16", FALSE),
    Option("gap_limit", "read_uint8", FALSE),
    Option("gap_action", "read_uint8", FALSE),
    Option("loop_action", "read_uint8", FALSE),
    Option("nb_probes_sent", "read_uint16", FALSE),
    Option("probes_interval", "read_uint8", FALSE),
    Option("confidence", "read_uint8", FALSE),
    Option("src_address", "read_address", FALSE),
    Option("dst_address", "read_address", FALSE),
    Option("user_id", "read_uint32", FALSE),
    Option("ip_offset", "read_uint16", FALSE) >>

\* TracerouteHop.OPTIONS
TracerouteHop_OPTIONS == <<
    Option("address_id", "read_uint32", TRUE),
    Option("probe_ttl", "read_uint8", FALSE),
    Option("reply_ttl", "read_uint8", FALSE),
    Option("hop_flags", "read_uint8", FALSE),
    Option("probe_id", "read_uint8", FALSE),
    Option("rtt", "read_uint32", FALSE),
    Option("reply_icmp_typecode", "read_uint16", FALSE),
    Option("probe_size", "read_uint16", FALSE),
    Option("reply_size", "read_uint16", FALSE),
    Option("reply_ip_id", "read_uint16", FALSE),
    Option("tos", "read_uint8", FALSE),
    Option("nexthop_mtu", "read_uint16", FALSE),
    Option("quoted_ip_length", "read_uint16", FALSE),
    Option("quoted_ttl", "read_uint8", FALSE),
    Option("reply_tcp_flags", "read_uint8", FALSE),
    Option("quoted_tos", "read_uint8", FALSE),
    Option("icmpext", "read_icmpext", FALSE),
    Option("address", "read_address", FALSE),
    Option("transmit_time", "read_timeval", FALSE) >>

\* The loop of OptionParser.parse_options over enumerate(options), from
\* the 1-based index i on; size is total_bytes_read
RECURSIVE OptionParser_parse_options_loop(_, _, _, _, _, _)
OptionParser_parse_options_loop(options, flags, i, attrs, total_bytes_read, at) ==
    IF i > Len(options) THEN FOk(attrs, total_bytes_read, at)
    ELSE IF ~Bits_is_true(flags, i - 1)
         THEN OptionParser_parse_options_loop(options, flags, i + 1, attrs,
                                              total_bytes_read, at)
    ELSE Bind(free_call(options[i].parse_function, at), LAMBDA v:
             OptionParser_parse_options_loop(options, flags, i + 1,
                 IF options[i].ignore THEN attrs
                 ELSE SetAttr(attrs, options[i].attr_name, v.val),
                 total_bytes_read + v.size, v.pos))

\* The end of OptionParser.parse_options: the check against the options
\* byte length, the skip of the unknown options by fd.read, and the byte
\* count returned; o.size is total_bytes_read
OptionParser_parse_options_end(flags_size, options_length_size, options_length, o) ==
    IF o.size > options_length THEN FRaise("InvalidFormat", o.pos)
    ELSE FOk(o.val, flags_size + options_length_size + options_length,
             IF o.size < options_length
             THEN fd_read_pos(o.pos, options_length - o.size)
             ELSE o.pos)

\* OptionParser.parse_options(self, fd, options)
OptionParser_parse_options(options, attrs, at) ==
    Bind(read_flags(at), LAMBDA flags:
        IF Bits_count(flags.val) = 0 THEN FOk(attrs, flags.size, flags.pos)
        ELSE Bind(read_uint16(flags.pos), LAMBDA options_length:
            Bind(OptionParser_parse_options_loop(options, flags.val, 1,
                                                 attrs, 0, options_length.pos),
                 LAMBDA o: OptionParser_parse_options_end(
                     flags.size, options_length.size,
                     options_length.val, o))))

---------------------------------------------------------------------------
(* traceroute.py: Traceroute and TracerouteHop derive from WartsRecord     *)
(* alone, and are written against the older calling convention.  Python    *)
(* raises TypeError when a call passes another number of positional        *)
(* arguments than the def it resolves to declares.                         *)

\* self.parse_options(fd, self.OPTIONS) on a subclass of WartsRecord: the
\* method found is WartsRecord.parse_options(self, options), which takes
\* one argument; nargs is the number passed
WartsRecord_parse_options_call(nargs, options, attrs, p) ==
    IF nargs # 1 THEN PRaise("TypeError", p)
    ELSE WartsRecord_parse_options(options, attrs, p)

\* TracerouteHop.parse(self, fd), called with nargs arguments
TracerouteHop_parse(nargs, attrs, p) ==
    IF nargs # 1 THEN PRaise("TypeError", p)
    ELSE WartsRecord_parse_options_call(2, TracerouteHop_OPTIONS, attrs, p)

\* Traceroute.parse(self, fd), called with nargs arguments.  Its first
\* statement, the log line of line 50, reads self.length, which is bound
\* by WartsRecord.parse alone: on an object without it AttributeError is
\* raised.  The next one is the call of line 52, which raises: the hop
\* loop and the length check after it are not reached.
Traceroute_parse(nargs, attrs, p) ==
    IF nargs # 1 THEN PRaise("TypeError", p)
    ELSE IF "length" \notin DOMAIN attrs THEN PRaise("AttributeError", p)
    ELSE WartsRecord_parse_options_call(2, Traceroute_OPTIONS, attrs, p)

---------------------------------------------------------------------------
(* base.py: the registry and WartsRecord.parse.                            *)

WARTS_MAGIC == 4613            \* 0x1205
WARTS_TYPE_LIST == 1
WARTS_TYPE_CYCLE_START == 2
WARTS_TYPE_CYCLE_DEF == 3
WARTS_TYPE_CYCLE_STOP == 4
WARTS_TYPE_TRACEROUTE == 6

\* @WartsRecord.register_warts_type(code): WARTS_TYPES[code] = cls
register_warts_type(types, code, cls) ==
    [t \in (DOMAIN types) \cup {code} |-> IF t = code THEN cls ELSE types[t]]

\* WARTS_TYPES = {} of base.py, then the package's __init__, which imports
\* base and traceroute (and through them parsing and errors)
InitialTypes ==
    register_warts_type([t \in {} |-> ""], WARTS_TYPE_TRACEROUTE,
                        "Traceroute")

InitialModules ==
    {"warts", "warts.base", "warts.parsing", "warts.errors",
     "warts.traceroute"}

\* cls.WARTS_TYPES.get(type_, UnknownRecord)
WARTS_TYPES_get(type_) ==
    IF type_ \in DOMAIN WARTS_TYPES THEN WARTS_TYPES[type_]
    ELSE "UnknownRecord"

\* record.parse(): base.py calls it with no argument
record_parse(cls, attrs, p) ==
    CASE cls = "UnknownRecord" -> UnknownRecord_parse(attrs, p)
      [] cls = "List" -> List_parse(attrs, p)
      [] cls \in {"CycleStart", "CycleDefinition"} -> CycleStart_parse(attrs, p)
      [] cls = "CycleStop" -> CycleStop_parse(attrs, p)
      [] cls = "Traceroute" -> Traceroute_parse(0, attrs, p)

\* except EmptyRead: return None
except_EmptyRead_AnyParseError(err) == err # ""

except_EmptyRead(err) == err = "EmptyRead"

\* if magic != 0x1205: raise InvalidFormat
magic_mismatch_Unchecked(magic) == FALSE

magic_mismatch(magic) == magic # WARTS_MAGIC

\* What a call returns or raises: kind is "None", "record" or "raise"
ReturnNone(at) ==
    [kind |-> "None", err |-> "", cls |-> "", attrs |-> NoAttrs, pos |-> at]
ReturnRecord(cls, attrs, at) ==
    [kind |-> "record", err |-> "", cls |-> cls, attrs |-> attrs, pos |-> at]
RaiseError(err, at) ==
    [kind |-> "raise", err |-> err, cls |-> "", attrs |-> NoAttrs, pos |-> at]

\* p.safe_read(...) of the skip, then return record
ReturnSkipped(cls, attrs, s) ==
    IF s.err # "" THEN RaiseError(s.err, s.p.pos)
    ELSE ReturnRecord(cls, attrs, s.p.pos)

\* The end of WartsRecord.parse, r being the outcome of record.parse():
\* the check against the declared length and the skip of what is left
WartsRecord_parse_end(subclass, total_expected_length, r) ==
    IF r.err # "" THEN RaiseError(r.err, r.p.pos)
    ELSE IF r.p.bytes_read > total_expected_length
    THEN RaiseError("InvalidFormat", r.p.pos)
    ELSE IF r.p.bytes_read < total_expected_length
    THEN ReturnSkipped(subclass, r.val,
             Parser_safe_read(r.p, total_expected_length - r.p.bytes_read))
    ELSE ReturnRecord(subclass, r.val, r.p.pos)

\* WartsRecord.parse from the magic check on, p being the parser after
\* the header
WartsRecord_parse_header(magic, type_, length, p) ==
    IF magic_mismatch(magic) THEN RaiseError("InvalidFormat", p.pos)
    ELSE WartsRecord_parse_end(WARTS_TYPES_get(type_),
             p.bytes_read + length,
             record_parse(WARTS_TYPES_get(type_),
                 SetAttr(SetAttr(NoAttrs, "type", type_), "length", length),
                 p))

\* WartsRecord.parse from the outcome h of the header read on
WartsRecord_parse_read(h) ==
    IF h.err # ""
    THEN IF except_EmptyRead(h.err) THEN ReturnNone(h.p.pos)
         ELSE RaiseError(h.err, h.p.pos)
    ELSE WartsRecord_parse_header(U16(SubSeq(h.val, 1, 2)),
                                  U16(SubSeq(h.val, 3, 4)),
                                  U32(SubSeq(h.val, 5, 8)), h.p)

\* WartsRecord.parse(cls, fd), the stream being at offset at; the header
\* format ">HHI" is 8 bytes
WartsRecord_parse(at) ==
    WartsRecord_parse_read(Parser_read_from_format(Parser_init(at), 8))

\* warts.parse_record(fd)
parse_record(at) == WartsRecord_parse(at)

---------------------------------------------------------------------------
(* The input streams of the record framing specification: one record, a    *)
(* follow-up, and the end of the stream cut short by up to MaxCut bytes.   *)

\* struct.pack(">HHI", magic, type, length)
Header(magic, type_, length) == Pack16(magic) \o Pack16(type_) \o Pack32(length)

\* Declared lengths around an actual length n
Lens(n) == { l \in n - MaxSlack .. n + MaxSlack : l >= 0 }

\* A stream without its last k bytes
Cut(s, k) == SubSeq(s, 1, Max(Len(s) - k, 0))

\* An option blob: the flag byte, the options byte length, the options
Blob(f, content) ==
    { <<f>> \o Pack16(l) \o content : l \in Lens(Len(content)) }

\* The same with several flag bytes
Blob3(flag_bytes, content) ==
    { flag_bytes \o Pack16(l) \o content : l \in Lens(Len(content)) }

\* Option blobs for a two-entry table; bit 2 is an option the table does
\* not know, one byte long
OptionBlobs(opt0, opt1) ==
    { <<0>> } \cup
    UNION { Blob(f, (IF BitSet(f, 0) THEN opt0 ELSE <<>>)
                    \o (IF BitSet(f, 1) THEN opt1 ELSE <<>>)
                    \o (IF BitSet(f, 2) THEN <<9>> ELSE <<>>)) :
            f \in 1 .. 7 }

\* Records of one type: each payload under each declared length around
\* its actual length
Framed(magic, type_, payloads) ==
    UNION { { Header(magic, type_, l) \o pl : l \in Lens(Len(pl)) } :
            pl \in payloads }

\* auto_id = 1, manual_id = 2, name = "test", then the options
ListPayloads ==
    { Pack32(1) \o Pack32(2) \o <<116, 101, 115, 116, 0>> \o b :
        b \in OptionBlobs(<<100, 0>>, <<109, 0>>) }

\* auto_id, list_id, manual_id, start_time, then the options
CyclePayloads ==
    { Pack32(1) \o Pack32(2) \o Pack32(3) \o Pack32(4) \o b :
        b \in { <<0>>, <<1, 0, 4, 0, 0, 0, 9>>, <<2, 0, 2, 104, 0>>,
                <<3, 0, 6, 0, 0, 0, 9, 104, 0>>, <<4, 0, 1, 9>> } }

CycleStopPayloads == { Pack32(3) \o Pack32(4) }

\* No option, the hop count, then that many hops without options
RECURSIVE Zeros(_)
Zeros(n) == IF n = 0 THEN <<>> ELSE <<0>> \o Zeros(n - 1)

TraceroutePayload(n) == <<0>> \o Pack16(n) \o Zeros(n)

TraceroutePayloads == { TraceroutePayload(n) : n \in 0 .. MaxHops }

OpaquePayloads == { <<>>, <<97>>, <<97, 98, 99>> }

BadMagics == { 4612, 1298 }      \* 0x1204, 0x0512

FirstRecords ==
    { <<>> }
    \cup Framed(WARTS_MAGIC, WARTS_TYPE_LIST, ListPayloads)
    \cup Framed(WARTS_MAGIC, WARTS_TYPE_CYCLE_START, CyclePayloads)
    \cup Framed(WARTS_MAGIC, WARTS_TYPE_CYCLE_DEF, CyclePayloads)
    \cup Framed(WARTS_MAGIC, WARTS_TYPE_CYCLE_STOP, CycleStopPayloads)
    \cup Framed(WARTS_MAGIC, WARTS_TYPE_TRACEROUTE, TraceroutePayloads)
    \cup Framed(WARTS_MAGIC, 7, OpaquePayloads)
    \cup UNION { Framed(m, t, { <<>>, <<97, 98, 99>> }) :
                 m \in BadMagics, t \in { WARTS_TYPE_LIST,
                                          WARTS_TYPE_TRACEROUTE, 7 } }

\* What follows the first record: nothing, another record, or the first
\* bytes of a header
FollowUps ==
    { <<>>,
      Header(WARTS_MAGIC, 7, 1) \o <<98>>,
      Header(WARTS_MAGIC, WARTS_TYPE_CYCLE_STOP, 8) \o Pack32(3) \o Pack32(4),
      Header(4612, 7, 0) }
    \cup { SubSeq(Header(WARTS_MAGIC, 7, 1), 1, k) : k \in 1 .. 7 }

Streams ==
    { Cut(r \o f, k) : r \in FirstRecords, f \in FollowUps, k \in 0 .. MaxCut }

---------------------------------------------------------------------------
(* The record framing specification: the program of test.py, which calls   *)
(* warts.parse_record(fd) until an exception ends it, and may import the   *)
(* modules warts.list and warts.cycle, whose decorators register their     *)
(* record classes.                                                         *)

\* hist after a call that returned ret
Returned(at, ret) == Append(hist, [start |-> at, ret |-> ret])

Init ==
    /\ fd \in Streams
    /\ pos = 0
    /\ WARTS_TYPES = InitialTypes
    /\ imported = InitialModules
    /\ op = "none"
    /\ start = 0
    /\ result = ReturnNone(0)
    /\ hist = <<>>
    /\ failed = FALSE

\* import warts.list
ImportList ==
    /\ ~failed
    /\ "warts.list" \notin imported
    /\ imported' = imported \cup {"warts.list"}
    /\ WARTS_TYPES' = register_warts_type(WARTS_TYPES, WARTS_TYPE_LIST, "List")
    /\ op' = "import warts.list"
    /\ UNCHANGED <<fd, pos, start, result, hist, failed>>

\* import warts.cycle
ImportCycle ==
    /\ ~failed
    /\ "warts.cycle" \notin imported
    /\ imported' = imported \cup {"warts.cycle"}
    /\ WARTS_TYPES' =
         register_warts_type(
           register_warts_type(
             register_warts_type(WARTS_TYPES, WARTS_TYPE_CYCLE_START,
                                 "CycleStart"),
             WARTS_TYPE_CYCLE_DEF, "CycleDefinition"),
           WARTS_TYPE_CYCLE_STOP, "CycleStop")
    /\ op' = "import warts.cycle"
    /\ UNCHANGED <<fd, pos, start, result, hist, failed>>

\* record = warts.parse_record(fd)
ParseRecord ==
    /\ ~failed
    /\ \E r \in {parse_record(pos)} :
       /\ result' = r
       /\ pos' = r.pos
       /\ failed' = (r.kind = "raise")
       /\ hist' = IF r.kind = "record"
                  THEN Returned(pos, [cls |-> r.cls, attrs |-> r.attrs])
                  ELSE hist
    /\ op' = "parse_record"
    /\ start' = pos
    /\ UNCHANGED <<fd, WARTS_TYPES, imported>>

Next == ImportList \/ ImportCycle \/ ParseRecord

Spec == Init /\ [][Next]_vars
---------------------------------------------------------------------------
(* The specifications of the free functions: a caller applies one          *)
(* function of parsing.py to the stream again and again, until a call      *)
(* raises.                                                                 *)

\* What a call of a free function returns or raises
FreeResult(r) ==
    [kind |-> IF r.err = "" THEN "value" ELSE "raise", err |-> r.err,
     val |-> r.val, size |-> r.size, pos |-> r.pos]

\* The state after a call named name made at offset pos with outcome r
Called(name, r) ==
    /\ op' = name
    /\ start' = pos
    /\ result' = FreeResult(r)
    /\ pos' = r.pos
    /\ failed' = (r.err # "")
    /\ hist' = IF r.err = "" THEN Returned(pos, r.val) ELSE hist
    /\ UNCHANGED <<fd, WARTS_TYPES, imported>>

InitOn(streams) ==
    /\ fd \in streams
    /\ pos = 0
    /\ WARTS_TYPES = InitialTypes
    /\ imported = InitialModules
    /\ op = "none"
    /\ start = 0
    /\ result = FreeResult(FOk(<<>>, 0, 0))
    /\ hist = <<>>
    /\ failed = FALSE

\* read_flags: every byte string of up to MaxFlagLen of these bytes
FlagByteValues == { 0, 1, 2, 127, 128, 129, 255 }

FlagStreams == UNION { [1 .. n -> FlagByteValues] : n \in 0 .. MaxFlagLen }

InitFlags == InitOn(FlagStreams)

CallReadFlags ==
    /\ ~failed
    /\ \E r \in {read_flags(pos)} : Called("read_flags", r)

NextFlags == CallReadFlags

SpecFlags == InitFlags /\ [][NextFlags]_vars

\* read_address: up to MaxAddrs encoded addresses, two literal ones and
\* back-references to the ids 0 .. 2
AddrEncodings ==
    { <<4, 1, 192, 0, 2, 1>>, <<4, 1, 10, 0, 0, 7>> }
    \cup { <<0>> \o Pack32(id) : id \in 0 .. 2 }

RECURSIVE AddrSeqs(_)
AddrSeqs(n) ==
    IF n = 0 THEN { <<>> }
    ELSE { <<>> } \cup { e \o s : e \in AddrEncodings, s \in AddrSeqs(n - 1) }

AddrStreams == { Cut(s, k) : s \in AddrSeqs(MaxAddrs), k \in 0 .. MaxCut }

InitAddr == InitOn(AddrStreams)

CallReadAddress ==
    /\ ~failed
    /\ \E r \in {read_address(pos)} : Called("read_address", r)

NextAddr == CallReadAddress

SpecAddr == InitAddr /\ [][NextAddr]_vars

\* Option tables: an option blob, what follows it, and the end cut short.
\* The blobs fit the first entries of the tables of traceroute.py (an
\* integer of four bytes, then integers of one byte) and of list.py
\* (two strings); one sets bit 19, which no table declares.
OptionStreams ==
    { Cut(b \o t, k) :
        b \in OptionBlobs(<<0, 0, 0, 5>>, <<7>>)
              \cup OptionBlobs(<<100, 0>>, <<109, 0>>)
              \cup Blob3(<<129, 128, 32>>, <<0, 0, 0, 5, 9>>),
        t \in { <<>>, <<0>>, <<2, 0, 1, 7>> },
        k \in 0 .. MaxCut }

InitOpt == InitOn(OptionStreams)

\* The option table of a record class of the framing layer
OptionsOf(cls) ==
    CASE cls = "List" -> List_OPTIONS
      [] cls \in {"CycleStart", "CycleDefinition"} -> CycleStart_OPTIONS
      [] OTHER -> <<>>

FreeTable(name) ==
    IF name = "Traceroute" THEN Traceroute_OPTIONS ELSE TracerouteHop_OPTIONS

\* An object of a class that mixes OptionParser in calls
\* self.parse_options(fd, OPTIONS)
CallOptionParser ==
    /\ ~failed
    /\ \E t \in {"Traceroute", "TracerouteHop"} :
         \E r \in {OptionParser_parse_options(FreeTable(t), NoAttrs, pos)} :
            Called("OptionParser.parse_options", r)

\* The outcome of a method of the framing layer as that of a free function
FromParser(r) ==
    [err |-> r.err, val |-> r.val, size |-> r.p.bytes_read, pos |-> r.p.pos]

\* A record of the framing layer calls self.parse_options(OPTIONS) through
\* a fresh Parser
CallRecordParseOptions ==
    /\ ~failed
    /\ \E t \in {"List", "CycleStart"} :
         \E r \in {WartsRecord_parse_options(OptionsOf(t), NoAttrs,
                                             Parser_init(pos))} :
            Called("WartsRecord.parse_options", FromParser(r))

NextOpt == CallOptionParser \/ CallRecordParseOptions

SpecOpt == InitOpt /\ [][NextOpt]_vars

\* read_icmpext: a byte budget, then up to MaxExts extension entries with
\* 0, 1 or 2 bytes of data; the budget ranges from 0 to MaxSlack bytes
\* more than the entries take
ExtEntries ==
    { <<0, 0, 1, 1>>, <<0, 1, 2, 1, 9>>, <<0, 2, 3, 2, 7, 8>> }

RECURSIVE ExtSeqs(_)
ExtSeqs(n) ==
    IF n = 0 THEN { <<>> }
    ELSE { <<>> } \cup { e \o s : e \in ExtEntries, s \in ExtSeqs(n - 1) }

Budgeted(s) == { Pack16(b) \o s : b \in 0 .. Len(s) + MaxSlack }

IcmpStreams ==
    { Cut(s, k) : s \in UNION { Budgeted(e) : e \in ExtSeqs(MaxExts) },
                  k \in 0 .. MaxCut }

InitIcmp == InitOn(IcmpStreams)

CallReadIcmpext ==
    /\ ~failed
    /\ \E r \in {read_icmpext(pos)} : Called("read_icmpext", r)

NextIcmp == CallReadIcmpext

SpecIcmp == InitIcmp /\ [][NextIcmp]_vars

\* read_string: every byte string of up to MaxStrLen of these bytes (two
\* letters, the terminator, the two bytes of U+00E9 and a byte that is in
\* no UTF-8 text), each call with every number of bytes the peek may
\* deliver.  A call at the end of the stream returns too, so the calls are
\* counted.
StringByteValues == { 0, 97, 116, 195, 169, 255 }

StringStreams ==
    UNION { [1 .. n -> StringByteValues] : n \in 0 .. MaxStrLen }

InitString == InitOn(StringStreams)

CallReadString ==
    /\ ~failed
    /\ Len(hist) < MaxCalls
    /\ \E peeked \in peek_sizes(pos) :
         \E r \in {read_string(pos, peeked)} : Called("read_string", r)

NextString == CallReadString

SpecString == InitString /\ [][NextString]_vars

---------------------------------------------------------------------------
(* Properties of the record framing specification.  They speak of the      *)
(* state right after a call of parse_record: the header the call met lies  *)
(* at offset start of the stream.                                          *)

HeaderComplete == Len(fd) - start >= 8
HeaderMagic == U16(SubSeq(fd, start + 1, start + 2))
HeaderType == U16(SubSeq(fd, start + 3, start + 4))
HeaderLength == U32(SubSeq(fd, start + 5, start + 8))

\* The call met a whole header with the right magic
ValidHeader ==
    op = "parse_record" /\ HeaderComplete /\ HeaderMagic = WARTS_MAGIC

\* The payload the header declares is in the stream
PayloadPresent == Len(fd) >= start + 8 + HeaderLength

\* C1: for a record of a registered type with declared length L,
\* WartsRecord.parse either raises InvalidFormat or returns with the
\* stream 8 + L bytes after the start of the record's header.
C1_TwoOutcomes ==
    (ValidHeader /\ HeaderType \in DOMAIN WARTS_TYPES /\ PayloadPresent)
    => \/ result.kind = "raise" /\ result.err = "InvalidFormat"
       \/ result.kind = "record" /\ pos = start + 8 + HeaderLength

\* The call returned an UnknownRecord carrying the header's type code and
\* length and the L bytes after the header, which it consumed
UnknownReturned ==
    /\ result.kind = "record"
    /\ result.cls = "UnknownRecord"
    /\ result.attrs["type"] = HeaderType
    /\ result.attrs["length"] = HeaderLength
    /\ result.attrs["data"] = SubSeq(fd, start + 9, start + 8 + HeaderLength)
    /\ Len(result.attrs["data"]) = HeaderLength
    /\ pos = start + 8 + HeaderLength

\* C2 as stated: for every header with valid magic and an unregistered
\* type code, parse consumes exactly the L payload bytes and returns an
\* UnknownRecord with that type, that length and those bytes, never
\* raising.
C2_UnknownNeverRaises ==
    (ValidHeader /\ HeaderType \notin DOMAIN WARTS_TYPES) => UnknownReturned

\* C2 amended: for every header with valid magic and an unregistered type
\* code, parse returns the UnknownRecord described above when the stream
\* holds the L payload bytes the header declares, and raises a truncation
\* error (EmptyRead or IncompleteRead) when it holds fewer.
C2_UnknownOrTruncated ==
    (ValidHeader /\ HeaderType \notin DOMAIN WARTS_TYPES)
    => IF PayloadPresent THEN UnknownReturned
       ELSE /\ result.kind = "raise"
            /\ result.err \in {"EmptyRead", "IncompleteRead"}

\* An unknown record with a payload was returned after another record
C2_Witness ==
    /\ ValidHeader /\ HeaderType \notin DOMAIN WARTS_TYPES /\ PayloadPresent
    /\ HeaderLength > 0 /\ start > 0
    /\ result.kind = "record" /\ result.cls = "UnknownRecord"

\* C3: a header read that meets the end of the stream returns None when no
\* byte is left, and raises a truncation error when 1 to 7 bytes are left.
C3_EndOfStream ==
    op = "parse_record" =>
        /\ (Len(fd) - start = 0 => result.kind = "None" /\ pos = start)
        /\ (Len(fd) - start \in 1 .. 7 =>
                result.kind = "raise" /\ result.err = "IncompleteRead")

\* A partial header was met after a record had been returned
C3_Witness ==
    /\ op = "parse_record" /\ Len(fd) - start \in 1 .. 7
    /\ Len(hist) > 0 /\ result.kind = "raise"

\* The offset of the presence bitmask in the record at offset start: after
\* the header and the fixed fields (two integers and a string for a List,
\* four integers for a cycle record)
RECURSIVE AfterString(_)
AfterString(at) ==
    IF at >= Len(fd) \/ fd[at + 1] = 0 THEN at + 1 ELSE AfterString(at + 1)

FlagsOffset(cls) ==
    IF cls = "List" THEN AfterString(start + 16) ELSE start + 24

\* The presence bitmask of the record the call decoded
DecodedFlags(cls) == Parser_read_flags(Parser_init(FlagsOffset(cls))).val

\* C4: after an option-table decode, every non-ignored option of the table
\* whose presence bit is clear reads as None on the record.
C4_ClearBitsReadNone ==
    (op = "parse_record" /\ result.kind = "record"
        /\ OptionsOf(result.cls) # <<>>)
    => \A i \in 1 .. Len(OptionsOf(result.cls)) :
         (/\ ~OptionsOf(result.cls)[i].ignore
          /\ ~BitSet(DecodedFlags(result.cls), i - 1))
         => /\ OptionsOf(result.cls)[i].attr_name \in DOMAIN result.attrs
            /\ result.attrs[OptionsOf(result.cls)[i].attr_name] = None

\* The static table of record types
StaticTable ==
    [t \in {WARTS_TYPE_LIST, WARTS_TYPE_CYCLE_START, WARTS_TYPE_CYCLE_DEF,
            WARTS_TYPE_CYCLE_STOP, WARTS_TYPE_TRACEROUTE} |->
        CASE t = WARTS_TYPE_LIST -> "List"
          [] t = WARTS_TYPE_CYCLE_START -> "CycleStart"
          [] t = WARTS_TYPE_CYCLE_DEF -> "CycleDefinition"
          [] t = WARTS_TYPE_CYCLE_STOP -> "CycleStop"
          [] t = WARTS_TYPE_TRACEROUTE -> "Traceroute"]

\* C6: from the first call of parse_record on, the registry holds every
\* type code of the static table.
C6_RegistryHoldsStaticTable ==
    op = "parse_record" =>
        \A t \in DOMAIN StaticTable :
            t \in DOMAIN WARTS_TYPES /\ WARTS_TYPES[t] = StaticTable[t]

\* C8: decoding a Traceroute record whose hop count is n yields a hops
\* sequence of exactly n entries, and n = 0 is not a decode failure.
C8_HopsMatchHopCount ==
    \A n \in 0 .. MaxHops :
        (/\ op = "parse_record" /\ start = 0
         /\ fd = Header(WARTS_MAGIC, WARTS_TYPE_TRACEROUTE, 3 + n)
                 \o TraceroutePayload(n))
        => /\ result.kind = "record"
           /\ "hops" \in DOMAIN result.attrs
           /\ Len(result.attrs["hops"]) = n

\* C9: a whole header whose magic is not 0x1205 makes parse raise
\* InvalidFormat, whatever the type code and the declared length, with no
\* byte consumed past the header.
C9_BadMagicRaises ==
    (op = "parse_record" /\ HeaderComplete /\ HeaderMagic # WARTS_MAGIC)
    => /\ result.kind = "raise" /\ result.err = "InvalidFormat"
       /\ pos = start + 8

\* A header with a wrong magic, a registered type code and a declared
\* length above zero was refused
C9_Witness ==
    /\ op = "parse_record" /\ HeaderComplete /\ HeaderMagic # WARTS_MAGIC
    /\ HeaderType \in DOMAIN WARTS_TYPES /\ HeaderLength > 0
    /\ result.kind = "raise" /\ result.err = "InvalidFormat"

---------------------------------------------------------------------------
(* Properties of the free functions of parsing.py.                         *)

\* Offset of the first byte at or after at whose high bit is clear, or -1
\* when the stream ends before one
RECURSIVE FirstFinal(_)
FirstFinal(at) ==
    IF at >= Len(fd) THEN -1
    ELSE IF fd[at + 1] < 128 THEN at
    ELSE FirstFinal(at + 1)

\* The bytes at .. last as one number: seven bits of every byte but the
\* last one, the k-th byte weighing 128^k
RECURSIVE FlagValue(_, _, _)
FlagValue(at, last, k) ==
    IF at = last THEN fd[at + 1] * Pow2(7 * k)
    ELSE (fd[at + 1] % 128) * Pow2(7 * k) + FlagValue(at + 1, last, k + 1)

\* The number a bitmask stands for
RECURSIVE BitsValue(_, _)
BitsValue(b, i) ==
    IF i >= b.size THEN 0
    ELSE (IF Bits_is_true(b, i) THEN Pow2(i) ELSE 0) + BitsValue(b, i + 1)

\* C7: read_flags consumes the bytes up to and including the first one
\* whose high bit is 0 and no further; the bitmask it returns, with the
\* number of bytes consumed, is the concatenation of the low seven bits of
\* every non-final byte and all eight bits of the final one, the first
\* byte least significant.
C7_FlagsVariableLength ==
    (op = "read_flags" /\ FirstFinal(start) # -1) =>
        /\ result.kind = "value"
        /\ pos = FirstFinal(start) + 1
        /\ result.size = pos - start
        /\ BitsValue(result.val, 0) = FlagValue(start, FirstFinal(start), 0)

\* read_flags has decoded the bytes 0x81 0x02 as 257 over two bytes
C7_Witness ==
    /\ op = "read_flags"
    /\ start = 0
    /\ Len(fd) >= 2
    /\ SubSeq(fd, 1, 2) = <<129, 2>>
    /\ result.kind = "value"
    /\ result.size = 2
    /\ BitsValue(result.val, 0) = 257

\* The values returned by the calls before the present one that read an
\* address in literal form, in stream order
PriorLiteral(e) == e.start < start /\ fd[e.start + 1] > 0

AddressTable == SelectSeq(hist, PriorLiteral)

\* C5: read_address on the length byte 0 followed by a 32-bit id returns
\* the address that the id-th earlier literal-form read of the stream
\* returned, when id is below the number of those reads, and fails with an
\* error when it is not.
C5_BackReferenceResolves ==
    (op = "read_address" /\ Len(fd) - start >= 5 /\ fd[start + 1] = 0) =>
        IF U32(SubSeq(fd, start + 2, start + 5)) < Len(AddressTable)
        THEN /\ result.kind = "value"
             /\ result.val =
                   AddressTable[U32(SubSeq(fd, start + 2, start + 5)) + 1].ret
        ELSE result.kind = "raise"

\* C10: for a nonzero presence bitmask followed by the 16-bit length L,
\* with s the offset just after the length field, parse_options either
\* raises (InvalidFormat when the present options took more than L bytes)
\* or leaves the cursor at exactly s + L.
C10_OptionsEndAtDeclaredLength ==
    (/\ op \in {"OptionParser.parse_options", "WartsRecord.parse_options"}
     /\ FirstFinal(start) # -1
     /\ Len(fd) >= FirstFinal(start) + 3
     /\ FlagValue(start, FirstFinal(start), 0) # 0) =>
        \/ result.kind = "raise"
        \/ pos = FirstFinal(start) + 3
                 + U16(SubSeq(fd, FirstFinal(start) + 2,
                              FirstFinal(start) + 3))

---------------------------------------------------------------------------
(* Properties of read_icmpext.                                             *)

\* The byte budget B of the call made at offset start
IcmpBudget == U16(SubSeq(fd, start + 1, start + 2))

\* Bytes an entry at offset at takes: four of header and ext_length of data
ExtSize(at) == 4 + U16(SubSeq(fd, at + 1, at + 2))

\* The offset after the entries read from at on while the offset is below
\* stop, or -1 when the stream ends inside one of them
RECURSIVE ExtEnd(_, _)
ExtEnd(at, stop) ==
    IF at >= stop THEN at
    ELSE IF Len(fd) < at + 4 THEN -1
    ELSE IF Len(fd) < at + ExtSize(at) THEN -1
    ELSE ExtEnd(at + ExtSize(at), stop)

\* Those entries, in input order
RECURSIVE ExtList(_, _)
ExtList(at, stop) ==
    IF at >= stop THEN <<>>
    ELSE << [class_ |-> fd[at + 3], type_ |-> fd[at + 4],
             data |-> SubSeq(fd, at + 5, at + ExtSize(at))] >>
         \o ExtList(at + ExtSize(at), stop)

\* C11: read_icmpext reads a 16-bit byte budget B, then entries while
\* fewer than B bytes have been read.  When the entries read take exactly
\* B bytes it returns them in input order having consumed 2 + B bytes;
\* when the last entry read takes the bytes read above B it raises
\* InvalidFormat.
C11_IcmpextBudget ==
    (/\ op = "read_icmpext"
     /\ Len(fd) >= start + 2
     /\ ExtEnd(start + 2, start + 2 + IcmpBudget) # -1) =>
        IF ExtEnd(start + 2, start + 2 + IcmpBudget) = start + 2 + IcmpBudget
        THEN /\ result.kind = "value"
             /\ pos = start + 2 + IcmpBudget
             /\ result.size = 2 + IcmpBudget
             /\ result.val = ExtList(start + 2, start + 2 + IcmpBudget)
        ELSE result.kind = "raise" /\ result.err = "InvalidFormat"

\* read_icmpext returned two entries, the first one of class 3 with two
\* bytes of data, the second of class 2, for a budget of 11 bytes
C11_Witness ==
    /\ op = "read_icmpext"
    /\ start = 0
    /\ Len(fd) >= 13
    /\ IcmpBudget = 11
    /\ result.kind = "value"
    /\ Len(result.val) = 2
    /\ result.val[1].class_ = 3
    /\ result.val[1].data = <<7, 8>>
    /\ result.val[2].class_ = 2
    /\ pos = 13

\* C12: whenever OptionParser.parse_options returns normally, the byte
\* count it returns equals the number of bytes it removed from the stream,
\* also when the stream ends inside the skipped unknown-option region.
C12_ReturnedCountIsConsumed ==
    (op = "OptionParser.parse_options" /\ result.kind = "value")
    => result.size = pos - start

===========================================================================
